---------------------------- MODULE Spec2Model ----------------------------
(***************************************************************************)
(* eduQuest-ai gamification core: the stored user document, the            *)
(* leaderboard projection, and the service functions of                    *)
(* backend/app/services/gamification.py together with the route handlers   *)
(* of backend/app/routes/user.py that call them.  Every awaited database   *)
(* call of a function is one atomic step of the request that runs it; the  *)
(* local computation around a call belongs to the step of that call.       *)
(***************************************************************************)
EXTENDS Integers, Sequences, FiniteSets, TLC

VARIABLES
    now,          \* the wall clock (datetime.utcnow()), in ticks
    horizon,      \* the last tick the clock reaches in this run
    budget,       \* requests one slot may serve in this run (0: any number)
    calls,        \* per request slot: requests served so far, when counted
    user,         \* the document of the one user in the "users" collection
    leaderboard,  \* that user's entry in the "leaderboards" collection
    pc,           \* per request slot: the database call it is about to make
    loc,          \* per request slot: the local variables of the running function
    res,          \* per request slot: what the last finished request returned
    ledger,       \* totalXP at the start plus every XP amount awarded since
    card,         \* the document of the one card in the "flashcards" collection
    weekly        \* that user's document in the "weekly_quests" collection

vars ==
    <<now, horizon, budget, calls, user, leaderboard, pc, loc, res, ledger, card,
      weekly>>

-----------------------------------------------------------------------------
(* Bounds of the model *)

TicksPerDay == 2      \* clock resolution: ticks in one calendar day
RaceDays == 2         \* days the clock runs in the all-operations runs
RaceCalls == 1        \* requests per slot when requests are in flight together
SeqCalls == 3         \* requests when all operations run one after another
StreakDays == 16      \* days the clock runs in the streak-only runs
LoginDays == 8        \* days the clock runs in the login-only runs
MaxXP == 1100         \* update_user_xp is not called once totalXP would pass it
MaxRankXP == 7600     \* the largest XP total whose rank is computed
CardCalls == 4        \* reviews of the card in one run
MaxInterval == 500    \* a review is not taken once its interval would pass it
MaxEase == 270        \* nor once its ease factor, in hundredths, would pass it
BonusDays == 2        \* days the clock runs in the login-bonus table runs
AchCalls == 2         \* achievement evaluations run one after another
StepInterval == 30    \* the largest interval of a card given to one SM-2 step
StepRepetitions == 3  \* the largest repetitions of such a card

Procs == {1, 2}       \* request slots: requests that may be in flight together
SeqProcs == {1}       \* the one slot used when requests run one after another
XpAmounts == {50, 500}  \* the xp_to_add arguments tried
RankGains == {0, 1}   \* new_xp - old_xp in the rank comparisons tried
StepEases == {130, 138, 250, 260}  \* the ease factors of such a card
StatStreaks == {0, 3, 7, 35}       \* currentStreak of the snapshots tried
StatQuests == {0, 10, 100}         \* questsCompleted of the snapshots tried
StatCorrect == {0, 100}            \* correctAnswers of the snapshots tried
StatXP == {0, 1000}                \* totalXP of the snapshots tried

-----------------------------------------------------------------------------
(* Dates and optional values *)

None == <<>>
Some(x) == <<x>>
Day(t) == t \div TicksPerDay          \* datetime.date(): the calendar day of a time
DayLength == TicksPerDay              \* timedelta(days=1)

-----------------------------------------------------------------------------
(* Tables *)

RANK_ORDER == <<"Bronze", "Silver", "Gold", "Platinum", "Diamond">>

RANK_THRESHOLDS(rank) ==
    CASE rank = "Bronze" -> 0
      [] rank = "Silver" -> 501
      [] rank = "Gold" -> 1501
      [] rank = "Platinum" -> 3001
      [] rank = "Diamond" -> 7501

STREAK_MILESTONES == {7, 30, 100, 365}

MilestoneFreezeTokens(m) ==
    CASE m = 7 -> 1 [] m = 30 -> 2 [] m = 100 -> 5 [] m = 365 -> 10

MilestoneBonusXP(m) ==
    CASE m = 7 -> 100 [] m = 30 -> 500 [] m = 100 -> 2000 [] m = 365 -> 10000

-----------------------------------------------------------------------------
(* Pure functions *)

\* A slip: a threshold counts as reached only once it is passed
RECURSIVE RankScanStrict(_, _)
RankScanStrict(xp, i) ==
    IF i = 0 THEN "Bronze"
    ELSE IF xp > RANK_THRESHOLDS(RANK_ORDER[i]) THEN RANK_ORDER[i]
    ELSE RankScanStrict(xp, i - 1)

\* get_rank_from_xp line 120-123: the ranks from the highest down
RECURSIVE RankScan(_, _)
RankScan(xp, i) ==
    IF i = 0 THEN "Bronze"
    ELSE IF xp >= RANK_THRESHOLDS(RANK_ORDER[i]) THEN RANK_ORDER[i]
    ELSE RankScan(xp, i - 1)

get_rank_from_xp(xp) == RankScan(xp, Len(RANK_ORDER))

check_rank_up(old_xp, new_xp) ==
    [ranked_up |-> get_rank_from_xp(old_xp) # get_rank_from_xp(new_xp),
     old_rank |-> get_rank_from_xp(old_xp),
     new_rank |-> get_rank_from_xp(new_xp)]

\* STREAK_MULTIPLIERS, in tenths: 1.0, 1.5, 2.0, 3.0
get_streak_multiplier(streak) ==
    IF streak >= 100 THEN 30
    ELSE IF streak >= 30 THEN 20
    ELSE IF streak >= 7 THEN 15
    ELSE 10

\* int(subtotal * multiplier): the product is exact, the cut is towards zero
calculate_xp(correct_answers, streak, perfect_score, time_bonus) ==
    LET base_xp == correct_answers * 10
        streak_bonus == IF streak > 0 THEN streak * 5 ELSE 0
        perfect_bonus == IF perfect_score THEN 50 ELSE 0
        subtotal == base_xp + streak_bonus + perfect_bonus + time_bonus
        multiplier == get_streak_multiplier(streak)
    IN [base |-> base_xp, streak_bonus |-> streak_bonus,
        perfect_bonus |-> perfect_bonus, time_bonus |-> time_bonus,
        subtotal |-> subtotal, streak_multiplier |-> multiplier,
        total |-> (subtotal * multiplier) \div 10]

\* A slip: the other days give the bonus of day 1
_get_login_bonus_base_of_day_1(streak) ==
    CASE streak = 3 -> [xp |-> 25, freeze_tokens |-> 0, badge |-> ""]
      [] streak = 7 -> [xp |-> 50, freeze_tokens |-> 1, badge |-> ""]
      [] streak = 14 -> [xp |-> 100, freeze_tokens |-> 1, badge |-> ""]
      [] streak = 30 -> [xp |-> 200, freeze_tokens |-> 2, badge |-> "Monthly Login Master"]
      [] streak = 50 -> [xp |-> 300, freeze_tokens |-> 2, badge |-> ""]
      [] streak = 100 -> [xp |-> 500, freeze_tokens |-> 5, badge |-> "Century Learner"]
      [] OTHER -> [xp |-> 10, freeze_tokens |-> 0, badge |-> ""]

\* DAILY_LOGIN_BONUSES and the flat bonus of the other days
_get_login_bonus(streak) ==
    CASE streak = 1 -> [xp |-> 10, freeze_tokens |-> 0, badge |-> ""]
      [] streak = 3 -> [xp |-> 25, freeze_tokens |-> 0, badge |-> ""]
      [] streak = 7 -> [xp |-> 50, freeze_tokens |-> 1, badge |-> ""]
      [] streak = 14 -> [xp |-> 100, freeze_tokens |-> 1, badge |-> ""]
      [] streak = 30 -> [xp |-> 200, freeze_tokens |-> 2, badge |-> "Monthly Login Master"]
      [] streak = 50 -> [xp |-> 300, freeze_tokens |-> 2, badge |-> ""]
      [] streak = 100 -> [xp |-> 500, freeze_tokens |-> 5, badge |-> "Century Learner"]
      [] OTHER -> [xp |-> 5, freeze_tokens |-> 0, badge |-> ""]

InSeq(x, s) == \E i \in 1..Len(s) : s[i] = x

-----------------------------------------------------------------------------
(* Documents *)

\* create_default_user_document: the fields the engines read, absent ones
\* at the default their .get() gives
FreshUser ==
    [exists |-> TRUE, totalXP |-> 0, rank |-> "Bronze",
     currentStreak |-> 0, longestStreak |-> 0, lastActiveDate |-> None,
     streakFreezes |-> 0, streakFreezeActive |-> FALSE,
     streakFreezeExpiry |-> None, streakMilestonesReached |-> <<>>,
     loginStreak |-> 0, lastLoginDate |-> None, lastBonusClaimDate |-> None,
     loginBadges |-> {}, achievements |-> <<>>]

\* find_one returns None: no document with this id
MissingUser == [FreshUser EXCEPT !.exists = FALSE]

\* A user who was active and claimed the login bonus on each of the six days
\* up to yesterday and was awarded XP up to 450
SixDayUser ==
    [FreshUser EXCEPT !.totalXP = 450,
                      !.currentStreak = 6, !.longestStreak = 6,
                      !.lastActiveDate = Some(0 - TicksPerDay),
                      !.loginStreak = 6,
                      !.lastLoginDate = Some(0 - TicksPerDay),
                      !.lastBonusClaimDate = Some(0 - TicksPerDay)]

\* A user who reached a seven-day streak (milestone 7: one freeze token,
\* 100 XP), was last active two days ago and never claimed a login bonus
LapsedUser ==
    [FreshUser EXCEPT !.totalXP = 100,
                      !.currentStreak = 7, !.longestStreak = 7,
                      !.lastActiveDate = Some(0 - 2 * TicksPerDay),
                      !.streakFreezes = 1,
                      !.streakMilestonesReached = <<7>>]

NoEntry == [present |-> FALSE, totalXP |-> 0, rankTier |-> "Bronze"]

\* The leaderboard entry of a user in one of the conditions above: written
\* by update_user_xp alone, which only SixDayUser has been through
EntryOf(u) ==
    IF u = SixDayUser
    THEN [present |-> TRUE, totalXP |-> u.totalXP, rankTier |-> u.rank]
    ELSE NoEntry

NoLoc == [op |-> "none"]
NoRes == [op |-> "none"]

-----------------------------------------------------------------------------
(* Request bookkeeping *)

\* A slot takes a request while its budget lasts
Accept(p) ==
    /\ budget = 0 \/ calls[p] < budget
    /\ calls' = IF budget = 0 THEN calls ELSE [calls EXCEPT ![p] = @ + 1]

\* The request in slot p returns r (at once, when the slot was idle)
Finish(p, r) ==
    /\ IF pc[p] = "idle" THEN Accept(p) ELSE UNCHANGED calls
    /\ pc' = [pc EXCEPT ![p] = "idle"]
    /\ loc' = [loc EXCEPT ![p] = NoLoc]
    /\ res' = [res EXCEPT ![p] = r]

\* Slot p takes a request, which goes on to the call at label
Begin(p, label, l) ==
    /\ Accept(p)
    /\ pc' = [pc EXCEPT ![p] = label]
    /\ loc' = [loc EXCEPT ![p] = l]
    /\ res' = [res EXCEPT ![p] = NoRes]

\* The request in slot p goes on to the call at label
Goto(p, label, l) ==
    /\ pc' = [pc EXCEPT ![p] = label]
    /\ loc' = [loc EXCEPT ![p] = l]
    /\ UNCHANGED <<res, calls>>

Tick ==
    /\ now < horizon
    /\ now' = now + 1
    /\ UNCHANGED <<weekly, card, horizon, budget, calls, user, leaderboard, pc, loc, res, ledger>>

-----------------------------------------------------------------------------
(* update_user_xp(user_id, xp_to_add) *)

\* line 156-164: find_one, then the new total and rank from the document read
update_user_xp_find(p, xp_to_add) ==
    /\ pc[p] = "idle"
    /\ user.totalXP + xp_to_add <= MaxXP
    /\ IF ~user.exists
       THEN Finish(p, [op |-> "update_user_xp", ok |-> FALSE])
       ELSE LET old_xp == user.totalXP
                new_xp == old_xp + xp_to_add
                r == check_rank_up(old_xp, new_xp)
            IN Begin(p, "xp_update",
                     [op |-> "update_user_xp", user |-> user,
                      xp_to_add |-> xp_to_add, old_xp |-> old_xp,
                      new_xp |-> new_xp, old_rank |-> r.old_rank,
                      new_rank |-> r.new_rank, ranked_up |-> r.ranked_up])
    /\ UNCHANGED <<weekly, card, now, horizon, budget, user, leaderboard, ledger>>

\* line 167-175: update_one $set stats.totalXP and rank
update_user_xp_update(p) ==
    /\ pc[p] = "xp_update"
    /\ user' = [user EXCEPT !.totalXP = loc[p].new_xp, !.rank = loc[p].new_rank]
    /\ ledger' = ledger + loc[p].xp_to_add
    /\ Goto(p, "xp_leaderboard", loc[p])
    /\ UNCHANGED <<weekly, card, now, horizon, budget, leaderboard>>

\* line 178-187: update_leaderboard_cache (upsert), then the result
update_leaderboard_cache(p) ==
    /\ pc[p] = "xp_leaderboard"
    /\ leaderboard' = [present |-> TRUE, totalXP |-> loc[p].new_xp,
                       rankTier |-> loc[p].new_rank]
    /\ Finish(p, [op |-> "update_user_xp", ok |-> TRUE,
                  oldXP |-> loc[p].old_xp, newXP |-> loc[p].new_xp,
                  xpGained |-> loc[p].xp_to_add, oldRank |-> loc[p].old_rank,
                  newRank |-> loc[p].new_rank, rankedUp |-> loc[p].ranked_up])
    /\ UNCHANGED <<weekly, card, now, horizon, budget, user, ledger>>

\* line 178, when the leaderboards collection cannot be written: update_one
\* at line 285 raises, update_user_xp awaits it outside any try, and the
\* exception leaves update_user_xp in place of its result, after the $set of
\* line 175
update_leaderboard_cache_raises(p) ==
    /\ pc[p] = "xp_leaderboard"
    /\ Finish(p, [op |-> "update_user_xp", ok |-> FALSE,
                  raised |-> "update_leaderboard_cache",
                  oldXP |-> loc[p].old_xp, newXP |-> loc[p].new_xp,
                  newRank |-> loc[p].new_rank])
    /\ UNCHANGED <<weekly, card, now, horizon, budget, user, leaderboard, ledger>>

-----------------------------------------------------------------------------
(* update_streak(user_id), with check_streak_milestone and                 *)
(* check_and_apply_freeze, which it awaits                                 *)

\* A slip: the full timestamps compared where the code compares dates
ActiveTodaySameInstant(last_active, t) ==
    last_active # None /\ last_active[1] = t

\* line 217: already active today
ActiveToday(last_active, t) ==
    last_active # None /\ Day(last_active[1]) = Day(t)

\* A slip: the day before yesterday counted as yesterday too
ActiveWithinTwoDays(last_active, t) ==
    last_active # None /\ Day(t) - Day(last_active[1]) \in {1, 2}

\* line 226: last active yesterday
ActiveYesterday(last_active, t) ==
    last_active # None /\ Day(last_active[1]) = Day(t) - 1

\* line 233: never active, or a gap of more than one day
GapOrNever(last_active, t) ==
    last_active = None \/ Day(t) - Day(last_active[1]) > 1

\* line 203-233, and line 341 of check_streak_milestone
update_streak_find(p) ==
    /\ pc[p] = "idle"
    /\ IF ~user.exists
       THEN Finish(p, [op |-> "update_streak", currentStreak |-> 0,
                       updated |-> FALSE, milestone |-> 0, at |-> now,
                       before |-> user])
       ELSE LET current_streak == user.currentStreak
                l == [op |-> "update_streak", user |-> user, now |-> now,
                      current_streak |-> current_streak, new_streak |-> 1,
                      milestone |-> 0, current_freezes |-> 0, current_xp |-> 0]
            IN IF ActiveToday(user.lastActiveDate, now)
               THEN Finish(p, [op |-> "update_streak",
                               currentStreak |-> current_streak,
                               updated |-> FALSE, milestone |-> 0,
                               at |-> now, before |-> user])
               ELSE IF ActiveYesterday(user.lastActiveDate, now)
               THEN IF current_streak + 1 \in STREAK_MILESTONES
                    THEN Begin(p, "milestone_find",
                               [l EXCEPT !.new_streak = current_streak + 1])
                    ELSE Begin(p, "streak_update",
                               [l EXCEPT !.new_streak = current_streak + 1])
               ELSE IF GapOrNever(user.lastActiveDate, now)
               THEN Begin(p, "freeze_find", l)
               ELSE Begin(p, "streak_update", l)
    /\ UNCHANGED <<weekly, card, now, horizon, budget, user, leaderboard, ledger>>

\* A slip: the claimed milestones are not consulted
AlreadyClaimedIgnored(new_streak, claimed_milestones) == FALSE

\* line 350: the milestone is already in streakMilestonesReached
AlreadyClaimed(new_streak, claimed_milestones) ==
    InSeq(new_streak, claimed_milestones)

\* check_streak_milestone line 347-359: find_one, the claimed milestones,
\* and the tokens and XP the rewards are added to
check_streak_milestone_find(p) ==
    /\ pc[p] = "milestone_find"
    /\ IF AlreadyClaimed(loc[p].new_streak, user.streakMilestonesReached)
       THEN Goto(p, "streak_update", loc[p])
       ELSE Goto(p, "milestone_update",
                 [loc[p] EXCEPT !.current_freezes = user.streakFreezes,
                                !.current_xp = user.totalXP])
    /\ UNCHANGED <<weekly, card, now, horizon, budget, user, leaderboard, ledger>>

\* check_streak_milestone line 361-378: update_one $set streakFreezes and
\* stats.totalXP, $push streakMilestonesReached
check_streak_milestone_update(p) ==
    /\ pc[p] = "milestone_update"
    /\ LET m == loc[p].new_streak
       IN /\ user' = [user EXCEPT
                 !.streakFreezes = loc[p].current_freezes + MilestoneFreezeTokens(m),
                 !.totalXP = loc[p].current_xp + MilestoneBonusXP(m),
                 !.streakMilestonesReached = Append(@, m)]
          /\ ledger' = ledger + MilestoneBonusXP(m)
          /\ Goto(p, "streak_update", [loc[p] EXCEPT !.milestone = m])
    /\ UNCHANGED <<weekly, card, now, horizon, budget, leaderboard>>

\* A slip: the expiry of the freeze is not looked at
FreezeNeverExpires(t, freeze_expiry) == FALSE

\* check_and_apply_freeze line 453: the freeze has expired
FreezeExpired(t, freeze_expiry) == t > freeze_expiry[1]

\* check_and_apply_freeze line 441-462: find_one, then the verdict
check_and_apply_freeze_find(p) ==
    /\ pc[p] = "freeze_find"
    /\ IF ~user.streakFreezeActive \/ user.streakFreezeExpiry = None
       THEN Goto(p, "streak_update", [loc[p] EXCEPT !.new_streak = 1])
       ELSE IF FreezeExpired(now, user.streakFreezeExpiry)
       THEN Goto(p, "freeze_expire", loc[p])
       ELSE Goto(p, "freeze_consume",
                 [loc[p] EXCEPT !.new_streak = loc[p].current_streak + 1])
    /\ UNCHANGED <<weekly, card, now, horizon, budget, user, leaderboard, ledger>>

\* check_and_apply_freeze line 455-459: the expired freeze is deactivated,
\* and update_streak line 247 starts the streak again at 1
check_and_apply_freeze_expire(p) ==
    /\ pc[p] = "freeze_expire"
    /\ user' = [user EXCEPT !.streakFreezeActive = FALSE]
    /\ Goto(p, "streak_update", [loc[p] EXCEPT !.new_streak = 1])
    /\ UNCHANGED <<weekly, card, now, horizon, budget, leaderboard, ledger>>

\* A slip: the freeze that protected the streak stays active
update_streak_keep_freeze(p) ==
    /\ pc[p] = "freeze_consume"
    /\ Goto(p, "streak_update", loc[p])
    /\ UNCHANGED <<weekly, card, now, horizon, budget, user, leaderboard, ledger>>

\* update_streak line 241-244: the freeze that protected the streak is
\* deactivated
update_streak_deactivate_freeze(p) ==
    /\ pc[p] = "freeze_consume"
    /\ user' = [user EXCEPT !.streakFreezeActive = FALSE]
    /\ Goto(p, "streak_update", loc[p])
    /\ UNCHANGED <<weekly, card, now, horizon, budget, leaderboard, ledger>>

\* A slip: off by one in the comparison with the longest streak
BeatsLongestByTwo(new_streak, longest) == new_streak > longest + 1

\* line 266: the new streak is the longest so far
BeatsLongest(new_streak, longest) == new_streak > longest

StreakResult(l) ==
    [op |-> "update_streak", currentStreak |-> l.new_streak,
     updated |-> TRUE, milestone |-> l.milestone, at |-> l.now,
     before |-> l.user]

\* line 252-266: find_one_and_update $set stats.currentStreak and
\* lastActiveDate, returning the document after the update
update_streak_update(p) ==
    /\ pc[p] = "streak_update"
    /\ user' = [user EXCEPT !.currentStreak = loc[p].new_streak,
                            !.lastActiveDate = Some(loc[p].now)]
    /\ IF BeatsLongest(loc[p].new_streak, user'.longestStreak)
       THEN Goto(p, "longest_update", loc[p])
       ELSE Finish(p, StreakResult(loc[p]))
    /\ UNCHANGED <<weekly, card, now, horizon, budget, leaderboard, ledger>>

\* line 267-277: update_one $set stats.longestStreak, then the result
update_streak_longest(p) ==
    /\ pc[p] = "longest_update"
    /\ user' = [user EXCEPT !.longestStreak = loc[p].new_streak]
    /\ Finish(p, StreakResult(loc[p]))
    /\ UNCHANGED <<weekly, card, now, horizon, budget, leaderboard, ledger>>

-----------------------------------------------------------------------------
(* POST /streak/use-freeze: use_freeze_token, which awaits use_streak_freeze *)

\* use_streak_freeze line 400-404 and 422-426: the dictionaries it returns
FreezeRefused ==
    [success |-> FALSE, error |-> "No freeze tokens available",
     freezes_remaining |-> 0]

FreezeGranted(current_freezes, tomorrow) ==
    [success |-> TRUE, freezes_remaining |-> current_freezes - 1,
     protected_until |-> tomorrow]

\* use_freeze_token line 380-398: the status the caller gets for a result of
\* use_streak_freeze; reading a key the result does not hold raises KeyError,
\* which the handler turns into 500
use_freeze_token(result) ==
    IF ~result.success THEN 400
    ELSE IF {"tokensRemaining", "expiresAt"} \subseteq DOMAIN result THEN 200
    ELSE 500

\* A slip: only a negative token count is refused
NoTokensBelowZero(current_freezes) == current_freezes < 0

\* use_streak_freeze line 399: no token to use
NoTokens(current_freezes) == current_freezes <= 0

\* use_streak_freeze line 393-408: find_one and the token count
use_streak_freeze_find(p) ==
    /\ pc[p] = "idle"
    /\ IF ~user.exists
       THEN Finish(p, [op |-> "use_freeze_token", status |-> 500,
                       result |-> [success |-> FALSE, error |-> "User not found"],
                       before |-> user])
       ELSE IF NoTokens(user.streakFreezes)
       THEN Finish(p, [op |-> "use_freeze_token",
                       status |-> use_freeze_token(FreezeRefused),
                       result |-> FreezeRefused, before |-> user])
       ELSE Begin(p, "freeze_update",
                  [op |-> "use_freeze_token", user |-> user,
                   current_freezes |-> user.streakFreezes,
                   tomorrow |-> now + DayLength])
    /\ UNCHANGED <<weekly, card, now, horizon, budget, user, leaderboard, ledger>>

\* use_streak_freeze line 410-426: update_one $set streakFreezes,
\* streakFreezeActive and streakFreezeExpiry; then the handler's answer
use_streak_freeze_update(p) ==
    /\ pc[p] = "freeze_update"
    /\ user' = [user EXCEPT !.streakFreezes = loc[p].current_freezes - 1,
                            !.streakFreezeActive = TRUE,
                            !.streakFreezeExpiry = Some(loc[p].tomorrow)]
    /\ Finish(p, [op |-> "use_freeze_token",
                  status |-> use_freeze_token(
                      FreezeGranted(loc[p].current_freezes, loc[p].tomorrow)),
                  result |-> FreezeGranted(loc[p].current_freezes,
                                           loc[p].tomorrow),
                  before |-> loc[p].user])
    /\ UNCHANGED <<weekly, card, now, horizon, budget, leaderboard, ledger>>

-----------------------------------------------------------------------------
(* POST /daily-bonus/claim: claim_daily_bonus, which awaits                *)
(* claim_daily_login_bonus and, in it, check_daily_login_bonus             *)

\* A slip: the full timestamps compared where the code compares dates
ClaimedTodaySameInstant(u, t) ==
    u.lastBonusClaimDate # None /\ u.lastBonusClaimDate[1] = t

\* check_daily_login_bonus line 543-554
ClaimedToday(u, t) ==
    u.lastBonusClaimDate # None /\ Day(u.lastBonusClaimDate[1]) = Day(t)

\* A slip: a login streak is never started again
NewLoginStreakNoReset(u, t) ==
    IF u.lastLoginDate # None
    THEN IF Day(t) = Day(u.lastLoginDate[1]) THEN u.loginStreak
         ELSE u.loginStreak + 1
    ELSE 1

\* check_daily_login_bonus line 557-574
NewLoginStreak(u, t) ==
    IF u.lastLoginDate # None
    THEN LET days_diff == Day(t) - Day(u.lastLoginDate[1])
         IN IF days_diff = 0 THEN u.loginStreak
            ELSE IF days_diff = 1 THEN u.loginStreak + 1
            ELSE 1
    ELSE 1

\* check_daily_login_bonus line 533-585, on the document u read at time t
check_daily_login_bonus(u, t) ==
    IF ~u.exists
    THEN [claimable |-> FALSE, reason |-> "Cannot claim bonus"]
    ELSE IF ClaimedToday(u, t)
    THEN [claimable |-> FALSE, reason |-> "Already claimed today",
          loginStreak |-> u.loginStreak]
    ELSE [claimable |-> TRUE, loginStreak |-> NewLoginStreak(u, t),
          oldStreak |-> u.loginStreak,
          bonus |-> _get_login_bonus(NewLoginStreak(u, t))]

\* claim_daily_login_bonus line 602-611
claim_daily_login_bonus_check(p) ==
    /\ pc[p] = "idle"
    /\ LET check_result == check_daily_login_bonus(user, now)
       IN IF ~check_result.claimable
          THEN Finish(p, [op |-> "claim_daily_bonus", success |-> FALSE,
                          status |-> 400, error |-> check_result.reason,
                          checked_at |-> now, before |-> user])
          ELSE Begin(p, "claim_update",
                     [op |-> "claim_daily_bonus", user |-> user,
                      new_streak |-> check_result.loginStreak,
                      bonus |-> check_result.bonus, checked_at |-> now,
                      claimed_at |-> 0])
    /\ UNCHANGED <<weekly, card, now, horizon, budget, user, leaderboard, ledger>>

\* A slip: the XP of the bonus is added twice
ClaimWrittenTwice(u, new_streak, bonus, t) ==
    [u EXCEPT !.lastLoginDate = Some(t),
              !.lastBonusClaimDate = Some(t),
              !.loginStreak = new_streak,
              !.totalXP = @ + bonus.xp + bonus.xp,
              !.streakFreezes = @ + bonus.freeze_tokens]

\* claim_daily_login_bonus line 614-646: the document u after update_one at
\* time t: $set the two dates and loginStreak, $inc stats.totalXP and
\* streakFreezes, $addToSet loginBadges
ClaimWritten(u, new_streak, bonus, t) ==
    [u EXCEPT !.lastLoginDate = Some(t),
              !.lastBonusClaimDate = Some(t),
              !.loginStreak = new_streak,
              !.totalXP = @ + bonus.xp,
              !.streakFreezes = @ + bonus.freeze_tokens,
              !.loginBadges = IF bonus.badge # ""
                              THEN @ \cup {[name |-> bonus.badge,
                                            earnedAt |-> t,
                                            days |-> new_streak]}
                              ELSE @]

\* claim_daily_login_bonus line 614-649: update_one
claim_daily_login_bonus_update(p) ==
    /\ pc[p] = "claim_update"
    /\ LET bonus == loc[p].bonus
       IN /\ user' = ClaimWritten(user, loc[p].new_streak, bonus, now)
          /\ ledger' = ledger + bonus.xp
    /\ Goto(p, "claim_find", [loc[p] EXCEPT !.claimed_at = now])
    /\ UNCHANGED <<weekly, card, now, horizon, budget, leaderboard>>

\* claim_daily_login_bonus line 652-661: find_one for the new totals
claim_daily_login_bonus_find(p) ==
    /\ pc[p] = "claim_find"
    /\ Finish(p, [op |-> "claim_daily_bonus", success |-> TRUE,
                  status |-> 200, loginStreak |-> loc[p].new_streak,
                  bonus |-> loc[p].bonus, newTotalXP |-> user.totalXP,
                  newFreezeTokens |-> user.streakFreezes,
                  checked_at |-> loc[p].checked_at,
                  claimed_at |-> loc[p].claimed_at, before |-> loc[p].user])
    /\ UNCHANGED <<weekly, card, now, horizon, budget, user, leaderboard, ledger>>

\* GET /daily-bonus/check: user.py line 400-420, which awaits
\* check_daily_login_bonus: find_one, and nothing written
check_daily_bonus(p) ==
    /\ pc[p] = "idle"
    /\ Finish(p, [op |-> "check_daily_bonus",
                  result |-> check_daily_login_bonus(user, now),
                  seen |-> user, at |-> now])
    /\ UNCHANGED <<weekly, card, now, horizon, budget, user, leaderboard, ledger>>

\* The days of DAILY_LOGIN_BONUSES
LoginBonusDays == {1, 3, 7, 14, 30, 50, 100}

\* The XP of the claims of n days in a row: the flat bonus of every day and,
\* for the days of the table, what their bonus has above it
LoginXpOfDays(n) ==
    LET above(d) ==
            IF n >= d THEN _get_login_bonus(d).xp - _get_login_bonus(0).xp
            ELSE 0
    IN n * _get_login_bonus(0).xp + above(1) + above(3) + above(7)
           + above(14) + above(30) + above(50) + above(100)

\* The freeze tokens of the claims of n days in a row
LoginTokensOfDays(n) ==
    LET tokens(d) == IF n >= d THEN _get_login_bonus(d).freeze_tokens ELSE 0
    IN tokens(7) + tokens(14) + tokens(30) + tokens(50) + tokens(100)

\* A user who claimed the login bonus on each of the n days up to
\* yesterday, and did nothing else
LoginUserAfter(n) ==
    IF n = 0 THEN FreshUser
    ELSE [FreshUser EXCEPT
            !.loginStreak = n,
            !.lastLoginDate = Some(0 - DayLength),
            !.lastBonusClaimDate = Some(0 - DayLength),
            !.totalXP = LoginXpOfDays(n),
            !.streakFreezes = LoginTokensOfDays(n),
            !.loginBadges =
                {[name |-> _get_login_bonus(d).badge,
                  earnedAt |-> 0 - (n - d + 1) * DayLength,
                  days |-> d] :
                    d \in {e \in LoginBonusDays :
                              e <= n /\ _get_login_bonus(e).badge # ""}}]

-----------------------------------------------------------------------------
(* check_achievements(user_id, user_stats), achievements.py *)

\* line 179-180
FirstQuestAchievement(earned, quests_completed) ==
    IF ~InSeq("first_quest", earned) /\ quests_completed >= 1
    THEN <<"first_quest">> ELSE <<>>

\* line 183-193
rank_achievements(rank) ==
    CASE rank = "Bronze" -> "bronze_rank"
      [] rank = "Silver" -> "silver_rank"
      [] rank = "Gold" -> "gold_rank"
      [] rank = "Platinum" -> "platinum_rank"
      [] rank = "Diamond" -> "diamond_rank"

RankAchievement(earned, rank) ==
    IF ~InSeq(rank_achievements(rank), earned)
    THEN <<rank_achievements(rank)>> ELSE <<>>

\* A slip: every streak threshold reached is reported, not the first one
StreakAchievementEach(earned, current_streak) ==
    (IF ~InSeq("streak_30", earned) /\ current_streak >= 30
     THEN <<"streak_30">> ELSE <<>>)
    \o (IF ~InSeq("streak_7", earned) /\ current_streak >= 7
        THEN <<"streak_7">> ELSE <<>>)
    \o (IF ~InSeq("streak_3", earned) /\ current_streak >= 3
        THEN <<"streak_3">> ELSE <<>>)

\* line 196-201
StreakAchievement(earned, current_streak) ==
    IF ~InSeq("streak_30", earned) /\ current_streak >= 30
    THEN <<"streak_30">>
    ELSE IF ~InSeq("streak_7", earned) /\ current_streak >= 7
    THEN <<"streak_7">>
    ELSE IF ~InSeq("streak_3", earned) /\ current_streak >= 3
    THEN <<"streak_3">>
    ELSE <<>>

\* line 204-209
QuestAchievement(earned, quests_completed) ==
    IF ~InSeq("quest_100", earned) /\ quests_completed >= 100
    THEN <<"quest_100">>
    ELSE IF ~InSeq("quest_50", earned) /\ quests_completed >= 50
    THEN <<"quest_50">>
    ELSE IF ~InSeq("quest_10", earned) /\ quests_completed >= 10
    THEN <<"quest_10">>
    ELSE <<>>

\* line 212-215
CorrectAchievement(earned, correct_answers) ==
    IF ~InSeq("correct_500", earned) /\ correct_answers >= 500
    THEN <<"correct_500">>
    ELSE IF ~InSeq("correct_100", earned) /\ correct_answers >= 100
    THEN <<"correct_100">>
    ELSE <<>>

\* line 218-223
XpAchievement(earned, total_xp) ==
    IF ~InSeq("xp_10000", earned) /\ total_xp >= 10000
    THEN <<"xp_10000">>
    ELSE IF ~InSeq("xp_5000", earned) /\ total_xp >= 5000
    THEN <<"xp_5000">>
    ELSE IF ~InSeq("xp_1000", earned) /\ total_xp >= 1000
    THEN <<"xp_1000">>
    ELSE <<>>

\* line 167-223: newly_unlocked, in the order the checks append to it
NewlyUnlocked(earned, rank, user_stats) ==
    FirstQuestAchievement(earned, user_stats.questsCompleted)
    \o RankAchievement(earned, rank)
    \o StreakAchievement(earned, user_stats.currentStreak)
    \o QuestAchievement(earned, user_stats.questsCompleted)
    \o CorrectAchievement(earned, user_stats.correctAnswers)
    \o XpAchievement(earned, user_stats.totalXP)

\* A slip: $push where the code has $addToSet
RECURSIVE Push(_, _)
Push(array, ids) ==
    IF ids = <<>> THEN array
    ELSE Push(Append(array, Head(ids)), Tail(ids))

\* line 230: $addToSet with $each: the ids not yet in the array are
\* appended to it
RECURSIVE AddToSet(_, _)
AddToSet(array, ids) ==
    IF ids = <<>> THEN array
    ELSE AddToSet(IF InSeq(Head(ids), array) THEN array
                  ELSE Append(array, Head(ids)),
                  Tail(ids))

\* line 163-225: find_one, then the checks on the achievements and the rank
\* read and on the snapshot given
check_achievements_find(p, user_stats) ==
    /\ pc[p] = "idle"
    /\ IF ~user.exists
       THEN Finish(p, [op |-> "check_achievements", user_stats |-> user_stats,
                       before |-> user, newly_unlocked |-> <<>>])
       ELSE LET newly_unlocked ==
                    NewlyUnlocked(user.achievements, user.rank, user_stats)
            IN IF newly_unlocked = <<>>
               THEN Finish(p, [op |-> "check_achievements",
                               user_stats |-> user_stats, before |-> user,
                               newly_unlocked |-> <<>>])
               ELSE Begin(p, "achievements_update",
                          [op |-> "check_achievements", user |-> user,
                           user_stats |-> user_stats,
                           newly_unlocked |-> newly_unlocked])
    /\ UNCHANGED <<weekly, card, now, horizon, budget, user, leaderboard, ledger>>

\* line 225-235: update_one $addToSet achievements, then the result
check_achievements_update(p) ==
    /\ pc[p] = "achievements_update"
    /\ user' = [user EXCEPT
                   !.achievements = AddToSet(@, loc[p].newly_unlocked)]
    /\ Finish(p, [op |-> "check_achievements",
                  user_stats |-> loc[p].user_stats, before |-> loc[p].user,
                  newly_unlocked |-> loc[p].newly_unlocked])
    /\ UNCHANGED <<weekly, card, now, horizon, budget, leaderboard, ledger>>

-----------------------------------------------------------------------------
(* POST /submit-quiz: submit_quiz_result *)

CalculateXpMaxArgs == 4     \* positional parameters calculate_xp takes
SubmitQuizArgs == 5         \* positional arguments the handler passes it

\* A slip: the guest branch pays the streak of the stored user
submit_quiz_result_stored_streak(p, is_guest, correct_answers, perfect_score) ==
    /\ pc[p] = "idle"
    /\ IF is_guest
       THEN LET xp == calculate_xp(correct_answers, user.currentStreak,
                                   perfect_score, 0)
            IN Finish(p, [op |-> "submit_quiz_result", status |-> 200,
                          xpEarned |-> xp.total, newTotalXP |-> xp.total,
                          newRank |-> "Bronze", rankedUp |-> FALSE,
                          guest |-> TRUE, before |-> user,
                          correctAnswers |-> correct_answers,
                          perfectScore |-> perfect_score])
       ELSE IF ~user.exists \/ SubmitQuizArgs > CalculateXpMaxArgs
       THEN Finish(p, [op |-> "submit_quiz_result", status |-> 500,
                       guest |-> FALSE, before |-> user])
       ELSE FALSE
    /\ UNCHANGED <<weekly, card, now, horizon, budget, user, leaderboard, ledger>>

\* user.py line 39-164.  A guest gets the XP of the submission alone.  For a
\* registered user the handler reads the document and calls calculate_xp with
\* one argument more than it takes: the TypeError, like the 404 before it,
\* is caught at line 162 and answered with 500.
submit_quiz_result(p, is_guest, correct_answers, perfect_score) ==
    /\ pc[p] = "idle"
    /\ IF is_guest
       THEN LET xp == calculate_xp(correct_answers, 0, perfect_score, 0)
            IN Finish(p, [op |-> "submit_quiz_result", status |-> 200,
                          xpEarned |-> xp.total, newTotalXP |-> xp.total,
                          newRank |-> "Bronze", rankedUp |-> FALSE,
                          guest |-> TRUE, before |-> user,
                          correctAnswers |-> correct_answers,
                          perfectScore |-> perfect_score])
       ELSE IF ~user.exists \/ SubmitQuizArgs > CalculateXpMaxArgs
       THEN Finish(p, [op |-> "submit_quiz_result", status |-> 500,
                       guest |-> FALSE, before |-> user])
       ELSE FALSE
    /\ UNCHANGED <<weekly, card, now, horizon, budget, user, leaderboard, ledger>>

-----------------------------------------------------------------------------
(* check_rank_up(old_xp, new_xp), called on its own *)

\* gamification.py line 125-139, for the arguments waiting in slot p
check_rank_up_call(p) ==
    /\ pc[p] = "idle"
    /\ loc[p].op = "check_rank_up"
    /\ LET r == check_rank_up(loc[p].old_xp, loc[p].new_xp)
       IN Finish(p, [op |-> "check_rank_up", old_xp |-> loc[p].old_xp,
                     new_xp |-> loc[p].new_xp, ranked_up |-> r.ranked_up,
                     old_rank |-> r.old_rank, new_rank |-> r.new_rank])
    /\ UNCHANGED <<weekly, card, now, horizon, budget, user, leaderboard, ledger>>

-----------------------------------------------------------------------------
(* POST /flashcards/{flashcard_id}/review: review_flashcard                *)
(* easeFactor is kept in hundredths: 2.5 is 250, 1.3 is 130                *)

\* ReviewFlashcardRequest: the ratings the request pattern lets through
Ratings == {"again", "hard", "good", "easy"}

\* line 288-294
quality_map(rating) ==
    CASE rating = "again" -> 0
      [] rating = "hard" -> 3
      [] rating = "good" -> 4
      [] rating = "easy" -> 5

\* generate_flashcards line 88-96: the SM-2 fields of a card created at t
NewCard(t) ==
    [exists |-> TRUE, easeFactor |-> 250, interval |-> 0, repetitions |-> 0,
     status |-> "learning", nextReview |-> t, lastReviewed |-> None,
     reviewHistory |-> <<>>]

\* find_one returns None: no card with this id
MissingCard == [NewCard(0) EXCEPT !.exists = FALSE]

\* round(): to the nearest integer, a half to the even neighbour; the
\* argument is hundredths / 100
round(hundredths) ==
    LET q == hundredths \div 100
        r == hundredths % 100
    IN IF r < 50 THEN q
       ELSE IF r > 50 THEN q + 1
       ELSE IF q % 2 = 0 THEN q ELSE q + 1

\* A slip: no rating counts as a failure
FailedBelowZero(quality) == quality < 0

\* line 304: the review failed
Failed(quality) == quality < 3

\* A slip: the fixed intervals of the first two passes are left out
PassedIntervalProductOnly(repetitions, interval, ease_factor) ==
    round(interval * ease_factor)

\* line 311-316: the interval of a passed review
PassedInterval(repetitions, interval, ease_factor) ==
    IF repetitions = 0 THEN 1
    ELSE IF repetitions = 1 THEN 6
    ELSE round(interval * ease_factor)

\* line 321: 0.1 - (5 - quality) * (0.08 + (5 - quality) * 0.02), in
\* hundredths
EaseChange(quality) == 10 - (5 - quality) * (8 + (5 - quality) * 2)

\* A slip: the lower limit of the ease factor is not applied
AtLeastMinimumEaseOff(ease_factor) == ease_factor

\* line 324-325: the ease factor is at least 1.3
AtLeastMinimumEase(ease_factor) ==
    IF ease_factor < 130 THEN 130 ELSE ease_factor

\* A slip: the mastered status is never given
PassedStatusNoMastered(interval) ==
    IF interval >= 1 THEN "reviewing" ELSE "learning"

\* line 328-333: the status of a passed review
PassedStatus(interval) ==
    IF interval >= 21 THEN "mastered"
    ELSE IF interval >= 1 THEN "reviewing"
    ELSE "learning"

\* A slip: a failed review leaves repetitions as it was
Sm2KeepsRepetitions(c, rating) ==
    LET quality == quality_map(rating)
        interval == PassedInterval(c.repetitions, c.interval, c.easeFactor)
    IN IF Failed(quality)
       THEN [quality |-> quality, ease_factor |-> c.easeFactor,
             interval |-> 0, repetitions |-> c.repetitions,
             status |-> "learning"]
       ELSE [quality |-> quality,
             ease_factor |-> AtLeastMinimumEase(c.easeFactor + EaseChange(quality)),
             interval |-> interval, repetitions |-> c.repetitions + 1,
             status |-> PassedStatus(interval)]

\* A slip: the interval is computed from the ease factor after its change
Sm2EaseFirst(c, rating) ==
    LET quality == quality_map(rating)
        ease_factor == AtLeastMinimumEase(c.easeFactor + EaseChange(quality))
        interval == PassedInterval(c.repetitions, c.interval, ease_factor)
    IN IF Failed(quality)
       THEN [quality |-> quality, ease_factor |-> c.easeFactor,
             interval |-> 0, repetitions |-> 0, status |-> "learning"]
       ELSE [quality |-> quality, ease_factor |-> ease_factor,
             interval |-> interval, repetitions |-> c.repetitions + 1,
             status |-> PassedStatus(interval)]

\* line 283-333: the SM-2 step on the card c read by find_one
Sm2(c, rating) ==
    LET quality == quality_map(rating)
        interval == PassedInterval(c.repetitions, c.interval, c.easeFactor)
    IN IF Failed(quality)
       THEN [quality |-> quality, ease_factor |-> c.easeFactor,
             interval |-> 0, repetitions |-> 0, status |-> "learning"]
       ELSE [quality |-> quality,
             ease_factor |-> AtLeastMinimumEase(c.easeFactor + EaseChange(quality)),
             interval |-> interval, repetitions |-> c.repetitions + 1,
             status |-> PassedStatus(interval)]

\* A slip: the review entry holds the interval the card had before
ReviewedLogsOldInterval(c, r, t) ==
    [c EXCEPT !.easeFactor = r.ease_factor,
              !.interval = r.interval,
              !.repetitions = r.repetitions,
              !.nextReview = t + r.interval * DayLength,
              !.lastReviewed = Some(t),
              !.status = r.status,
              !.reviewHistory =
                  Append(@, [timestamp |-> t, quality |-> r.quality,
                             interval |-> c.interval,
                             easeFactor |-> r.ease_factor])]

\* line 336-362: the stored card c after update_one at time t with the
\* values r of the SM-2 step: $set of the SM-2 fields and the two dates,
\* $push of the review entry
Reviewed(c, r, t) ==
    [c EXCEPT !.easeFactor = r.ease_factor,
              !.interval = r.interval,
              !.repetitions = r.repetitions,
              !.nextReview = t + r.interval * DayLength,
              !.lastReviewed = Some(t),
              !.status = r.status,
              !.reviewHistory =
                  Append(@, [timestamp |-> t, quality |-> r.quality,
                             interval |-> r.interval,
                             easeFactor |-> r.ease_factor])]

\* The card created at t after reviews with these ratings, one a day
RECURSIVE CardAfter(_, _)
CardAfter(ratings, t) ==
    IF ratings = <<>> THEN NewCard(t)
    ELSE LET n == Len(ratings)
             c == CardAfter(SubSeq(ratings, 1, n - 1), t)
         IN Reviewed(c, Sm2(c, ratings[n]), t + n * DayLength)

\* A card that was rated "hard" on each of the eight days up to yesterday
HardCard ==
    CardAfter(<<"hard", "hard", "hard", "hard", "hard", "hard", "hard", "hard">>,
              0 - 9 * DayLength)

\* line 279-333: find_one and the SM-2 step on the card read
review_flashcard_find(p, rating) ==
    /\ pc[p] = "idle"
    /\ IF ~card.exists
       THEN Finish(p, [op |-> "review_flashcard", status |-> 404,
                       rating |-> rating, before |-> card])
       ELSE /\ Sm2(card, rating).interval <= MaxInterval
            /\ Sm2(card, rating).ease_factor <= MaxEase
            /\ Begin(p, "review_update",
                     [op |-> "review_flashcard", card |-> card,
                      rating |-> rating, sm2 |-> Sm2(card, rating)])
    /\ UNCHANGED <<weekly, card, now, horizon, budget, user, leaderboard, ledger>>

\* line 336-375: update_one, then the answer
review_flashcard_update(p) ==
    /\ pc[p] = "review_update"
    /\ card' = Reviewed(card, loc[p].sm2, now)
    /\ Finish(p, [op |-> "review_flashcard", status |-> 200,
                  rating |-> loc[p].rating, before |-> loc[p].card,
                  flashcard |-> loc[p].sm2])
    /\ UNCHANGED <<weekly, now, horizon, budget, user, leaderboard, ledger>>

-----------------------------------------------------------------------------
(* PUT /weekly-quests/progress: update_weekly_quest_progress, and          *)
(* get_weekly_quests, which it awaits; weekly_quests.py                    *)

\* line 35-42: the Monday of the week of the time t, day 0 being a Monday
get_week_start(t) == Day(t) - (Day(t) % 7)

\* line 45-75
create_default_quests ==
    << [id |-> "quiz_marathon", progress |-> 0, target |-> 20, xp |-> 200,
        completed |-> FALSE],
       [id |-> "perfect_scholar", progress |-> 0, target |-> 10, xp |-> 300,
        completed |-> FALSE],
       [id |-> "streak_master", progress |-> 0, target |-> 7, xp |-> 500,
        completed |-> FALSE] >>

\* line 95-101: the document of a week that starts on the day week_start
NewWeek(week_start) ==
    [exists |-> TRUE, weekStart |-> week_start,
     quests |-> create_default_quests, allCompleted |-> FALSE,
     bonusAwarded |-> FALSE]

\* find_one returns None: the user has no weekly quests yet
NoWeekly == [NewWeek(0) EXCEPT !.exists = FALSE]

\* The document of the week before, every quest completed and the bonus
\* awarded
LastWeek ==
    [NewWeek(0 - 7) EXCEPT
        !.quests = [i \in 1..3 |->
                       [create_default_quests[i] EXCEPT
                           !.progress = create_default_quests[i].target,
                           !.completed = TRUE]],
        !.allCompleted = TRUE,
        !.bonusAwarded = TRUE]

\* line 94 and 134: no document, or the document of another week
NotThisWeek(weekly_data, t) ==
    ~weekly_data.exists \/ weekly_data.weekStart # get_week_start(t)

\* line 143-147 and 151-155: one more quiz counted for a quest that is not
\* at its target
Counted(quest) ==
    IF quest.progress < quest.target /\ ~quest.completed
    THEN [quest EXCEPT !.progress = @ + 1,
                       !.completed = quest.progress + 1 >= quest.target]
    ELSE quest

\* line 158-164: the streak quest at the streak reported, up to its target
StreakTracked(quest, current_streak) ==
    LET current_progress == IF current_streak[1] < quest.target
                            THEN current_streak[1] ELSE quest.target
    IN IF current_streak # None /\ current_progress > quest.progress
       THEN [quest EXCEPT !.progress = current_progress,
                          !.completed = IF current_progress >= quest.target
                                        THEN TRUE ELSE @]
       ELSE quest

\* line 139-181: the quests after the request, whether any changed, and the
\* XP to award: the xp of every quest completed, and 200 when all are
\* completed and the bonus was not awarded
Progress(weekly_data, quiz_score, current_streak) ==
    LET old == weekly_data.quests
        quests == << Counted(old[1]),
                     IF quiz_score # None /\ quiz_score[1] >= 90
                     THEN Counted(old[2]) ELSE old[2],
                     StreakTracked(old[3], current_streak) >>
        updated == quests # old
        all_completed == \A i \in 1..3 : quests[i].completed
        bonus == updated /\ all_completed /\ ~weekly_data.bonusAwarded
        completed_xp(i) == IF quests[i].completed THEN quests[i].xp ELSE 0
    IN [quests |-> quests, updated |-> updated,
        allCompleted |-> all_completed,
        bonusAwarded |-> bonus \/ weekly_data.bonusAwarded,
        xpAwarded |-> IF updated
                      THEN completed_xp(1) + completed_xp(2) + completed_xp(3)
                           + (IF bonus THEN 200 ELSE 0)
                      ELSE 0]

\* line 129-139: find_one; a document of this week goes to the update, any
\* other to get_weekly_quests
update_weekly_quest_progress_find(p, quiz_score, current_streak) ==
    /\ pc[p] = "idle"
    /\ Begin(p, IF NotThisWeek(weekly, now) THEN "weekly_reset"
                ELSE "weekly_update",
             [op |-> "update_weekly_quest_progress", weekly_data |-> weekly,
              quiz_score |-> quiz_score, current_streak |-> current_streak])
    /\ UNCHANGED <<weekly, card, now, horizon, budget, user, leaderboard, ledger>>

\* line 136, get_weekly_quests line 88-94: find_one
get_weekly_quests_find(p) ==
    /\ pc[p] = "weekly_reset"
    /\ Goto(p, IF NotThisWeek(weekly, now) THEN "weekly_upsert"
               ELSE "weekly_refind", loc[p])
    /\ UNCHANGED <<weekly, card, now, horizon, budget, user, leaderboard, ledger>>

\* get_weekly_quests line 95-110: update_one with upsert, $set of the
\* document of this week
get_weekly_quests_upsert(p) ==
    /\ pc[p] = "weekly_upsert"
    /\ weekly' = NewWeek(get_week_start(now))
    /\ Goto(p, "weekly_refind", loc[p])
    /\ UNCHANGED <<card, now, horizon, budget, user, leaderboard, ledger>>

\* line 137: find_one again
update_weekly_quest_progress_refind(p) ==
    /\ pc[p] = "weekly_refind"
    /\ Goto(p, "weekly_update", [loc[p] EXCEPT !.weekly_data = weekly])
    /\ UNCHANGED <<weekly, card, now, horizon, budget, user, leaderboard, ledger>>

\* line 139-198: the progress on the document read, update_one $set of
\* quests, allCompleted and bonusAwarded when a quest changed, and the answer
update_weekly_quest_progress_update(p) ==
    /\ pc[p] = "weekly_update"
    /\ LET r == Progress(loc[p].weekly_data, loc[p].quiz_score,
                         loc[p].current_streak)
       IN /\ weekly' = IF r.updated
                       THEN [weekly EXCEPT !.quests = r.quests,
                                           !.allCompleted = r.allCompleted,
                                           !.bonusAwarded = r.bonusAwarded]
                       ELSE weekly
          /\ Finish(p, [op |-> "update_weekly_quest_progress",
                        success |-> TRUE, quests |-> r.quests,
                        allCompleted |-> r.allCompleted,
                        xpAwarded |-> r.xpAwarded,
                        before |-> loc[p].weekly_data])
    /\ UNCHANGED <<card, now, horizon, budget, user, leaderboard, ledger>>

-----------------------------------------------------------------------------
(* Specifications *)

InitWith(users, days, requests) ==
    /\ now = 0
    /\ horizon = days * TicksPerDay - 1
    /\ budget = requests
    /\ calls = [p \in Procs |-> 0]
    /\ user \in users
    /\ leaderboard = EntryOf(user)
    /\ pc = [p \in Procs |-> "idle"]
    /\ loc = [p \in Procs |-> NoLoc]
    /\ res = [p \in Procs |-> NoRes]
    /\ ledger = user.totalXP
    /\ card = NewCard(0)
    /\ weekly = NoWeekly

XpSteps(p) ==
    \/ \E xp_to_add \in XpAmounts : update_user_xp_find(p, xp_to_add)
    \/ update_user_xp_update(p)
    \/ update_leaderboard_cache(p)

StreakSteps(p) ==
    \/ update_streak_find(p)
    \/ check_streak_milestone_find(p)
    \/ check_streak_milestone_update(p)
    \/ check_and_apply_freeze_find(p)
    \/ check_and_apply_freeze_expire(p)
    \/ update_streak_deactivate_freeze(p)
    \/ update_streak_update(p)
    \/ update_streak_longest(p)

FreezeSteps(p) ==
    \/ use_streak_freeze_find(p)
    \/ use_streak_freeze_update(p)

LoginSteps(p) ==
    \/ claim_daily_login_bonus_check(p)
    \/ claim_daily_login_bonus_update(p)
    \/ claim_daily_login_bonus_find(p)

QuizSteps(p) ==
    \E is_guest \in BOOLEAN, correct_answers \in {5}, perfect_score \in BOOLEAN :
        submit_quiz_result(p, is_guest, correct_answers, perfect_score)

\* Requests of every kind, in flight together, on a user in any of three
\* conditions
Users == {FreshUser, SixDayUser, LapsedUser, MissingUser}

Init == InitWith(Users, RaceDays, RaceCalls)

Next ==
    \/ Tick
    \/ \E p \in Procs :
        XpSteps(p) \/ StreakSteps(p) \/ FreezeSteps(p) \/ LoginSteps(p) \/ QuizSteps(p)

Spec == Init /\ [][Next]_vars

\* The same requests, one after another
InitSeq == InitWith(Users, RaceDays, SeqCalls)

NextSeq ==
    \/ Tick
    \/ \E p \in SeqProcs :
        XpSteps(p) \/ StreakSteps(p) \/ FreezeSteps(p) \/ LoginSteps(p) \/ QuizSteps(p)

SpecSeq == InitSeq /\ [][NextSeq]_vars

\* Daily streak events and freeze requests, one after another, from
\* registration
InitStreak == InitWith({FreshUser}, StreakDays, 0)

NextStreak ==
    \/ Tick
    \/ \E p \in SeqProcs : StreakSteps(p) \/ FreezeSteps(p)

SpecStreak == InitStreak /\ [][NextStreak]_vars

\* Login-bonus claims, one after another, from registration
InitLogin == InitWith({FreshUser}, LoginDays, 0)

NextLogin ==
    \/ Tick
    \/ \E p \in SeqProcs : LoginSteps(p)

SpecLogin == InitLogin /\ [][NextLogin]_vars

\* check_rank_up on its own, for every total up to MaxRankXP and the total
\* a gain brings it to
InitRank ==
    /\ now = 0
    /\ horizon = 0
    /\ budget = 1
    /\ calls = [p \in Procs |-> 0]
    /\ user = FreshUser
    /\ leaderboard = NoEntry
    /\ pc = [p \in Procs |-> "idle"]
    /\ \E old_xp \in 0..MaxRankXP, gain \in RankGains :
          loc = [p \in Procs |->
                    IF p \in SeqProcs
                    THEN [op |-> "check_rank_up", old_xp |-> old_xp,
                          new_xp |-> old_xp + gain]
                    ELSE NoLoc]
    /\ res = [p \in Procs |-> NoRes]
    /\ ledger = 0
    /\ card = NewCard(0)
    /\ weekly = NoWeekly

NextRank == \E p \in SeqProcs : check_rank_up_call(p)

SpecRank == InitRank /\ [][NextRank]_vars

\* Reviews of one card, one after another: a new card, a card with a review
\* history, or no card
Cards == {NewCard(0), HardCard, MissingCard}

CardSteps(p) ==
    \/ \E rating \in Ratings : review_flashcard_find(p, rating)
    \/ review_flashcard_update(p)

InitCards ==
    /\ now = 0
    /\ horizon = TicksPerDay - 1
    /\ budget = CardCalls
    /\ calls = [p \in Procs |-> 0]
    /\ user = FreshUser
    /\ leaderboard = NoEntry
    /\ pc = [p \in Procs |-> "idle"]
    /\ loc = [p \in Procs |-> NoLoc]
    /\ res = [p \in Procs |-> NoRes]
    /\ ledger = 0
    /\ card \in Cards
    /\ weekly = NoWeekly

NextCards ==
    \/ Tick
    \/ \E p \in SeqProcs : CardSteps(p)

SpecCards == InitCards /\ [][NextCards]_vars

\* Reviews of one card in flight together
InitCardRace ==
    /\ now = 0
    /\ horizon = TicksPerDay - 1
    /\ budget = RaceCalls
    /\ calls = [p \in Procs |-> 0]
    /\ user = FreshUser
    /\ leaderboard = NoEntry
    /\ pc = [p \in Procs |-> "idle"]
    /\ loc = [p \in Procs |-> NoLoc]
    /\ res = [p \in Procs |-> NoRes]
    /\ ledger = 0
    /\ card \in Cards
    /\ weekly = NoWeekly

NextCardRace == \E p \in Procs : CardSteps(p)

SpecCardRace == InitCardRace /\ [][NextCardRace]_vars

\* Progress updates of the weekly quests, one after another within a week,
\* by a user with no document or with the document of the week before
QuizScores == {None, Some(50), Some(95)}
Streaks == {None, Some(3), Some(7)}

WeeklySteps(p) ==
    \/ \E quiz_score \in QuizScores, current_streak \in Streaks :
          update_weekly_quest_progress_find(p, quiz_score, current_streak)
    \/ get_weekly_quests_find(p)
    \/ get_weekly_quests_upsert(p)
    \/ update_weekly_quest_progress_refind(p)
    \/ update_weekly_quest_progress_update(p)

InitWeekly ==
    /\ now = 0
    /\ horizon = TicksPerDay - 1
    /\ budget = 0
    /\ calls = [p \in Procs |-> 0]
    /\ user = FreshUser
    /\ leaderboard = NoEntry
    /\ pc = [p \in Procs |-> "idle"]
    /\ loc = [p \in Procs |-> NoLoc]
    /\ res = [p \in Procs |-> NoRes]
    /\ ledger = 0
    /\ card = NewCard(0)
    /\ weekly \in {NoWeekly, LastWeek}

NextWeekly == \E p \in SeqProcs : WeeklySteps(p)

SpecWeekly == InitWeekly /\ [][NextWeekly]_vars

\* Login-bonus claims in slot 1 and checks in slot 2, by users who claimed on
\* each of the n days up to yesterday, n + 1 being a day of the bonus table
LoginUsers == {LoginUserAfter(n) : n \in {0, 2, 6, 13, 29, 49, 99}}

InitBonus == InitWith(LoginUsers, BonusDays, 0)

NextBonus ==
    \/ Tick
    \/ \E p \in SeqProcs : LoginSteps(p)
    \/ \E p \in Procs \ SeqProcs : check_daily_bonus(p)

SpecBonus == InitBonus /\ [][NextBonus]_vars

\* Achievement evaluations on snapshots of every combination of the stats
\* tried
Snapshots ==
    [totalXP : StatXP, questsCompleted : StatQuests,
     currentStreak : StatStreaks, correctAnswers : StatCorrect]

\* The snapshots of the evaluations that run together
RaceSnapshots ==
    {st \in Snapshots :
        /\ st.questsCompleted = 0
        /\ st.correctAnswers = 0
        /\ st.currentStreak \in {0, 7, 35}}

AchievementSteps(p, snapshots) ==
    \/ \E user_stats \in snapshots : check_achievements_find(p, user_stats)
    \/ check_achievements_update(p)

\* Evaluations one after another
InitAch == InitWith({FreshUser, MissingUser}, 1, AchCalls)

NextAch == \E p \in SeqProcs : AchievementSteps(p, Snapshots)

SpecAch == InitAch /\ [][NextAch]_vars

\* Evaluations in flight together
InitAchRace == InitWith({FreshUser, MissingUser}, 1, RaceCalls)

NextAchRace == \E p \in Procs : AchievementSteps(p, RaceSnapshots)

SpecAchRace == InitAchRace /\ [][NextAchRace]_vars

\* XP updates, one after another, while the leaderboards collection may
\* fail to take a write
InitOutage == InitWith(Users, 1, SeqCalls)

NextOutage ==
    \E p \in SeqProcs : XpSteps(p) \/ update_leaderboard_cache_raises(p)

SpecOutage == InitOutage /\ [][NextOutage]_vars

\* One review of a card as find_one may return it: review_flashcard takes
\* the SM-2 fields of the document as they are, whatever wrote them
StepCards ==
    {[NewCard(0) EXCEPT !.interval = i, !.repetitions = n, !.easeFactor = e,
                        !.status = PassedStatus(i)] :
        i \in 0..StepInterval, n \in 0..StepRepetitions, e \in StepEases}

InitStep ==
    /\ now = 0
    /\ horizon = 0
    /\ budget = 1
    /\ calls = [p \in Procs |-> 0]
    /\ user = FreshUser
    /\ leaderboard = NoEntry
    /\ pc = [p \in Procs |-> "idle"]
    /\ loc = [p \in Procs |-> NoLoc]
    /\ res = [p \in Procs |-> NoRes]
    /\ ledger = 0
    /\ card \in StepCards
    /\ weekly = NoWeekly

NextStep == \E p \in SeqProcs : CardSteps(p)

SpecStep == InitStep /\ [][NextStep]_vars

-----------------------------------------------------------------------------
(* Properties *)

AllIdle == \A p \in Procs : pc[p] = "idle"

NoDuplicates(s) == \A i, j \in 1..Len(s) : s[i] = s[j] => i = j

\* Slot p takes a request of the kind op in this step
Takes(p, op) ==
    /\ pc[p] = "idle"
    /\ \/ loc'[p].op = op
       \/ res'[p] # res[p] /\ res'[p].op = op

\* C1: after any sequence of completed engine operations the stored rank is
\* the rank of the stored totalXP.
C1_RankMatchesXP ==
    AllIdle /\ user.exists => user.rank = get_rank_from_xp(user.totalXP)

\* C2: when XP-changing operations interleave no award is lost: once all
\* have completed, totalXP is the initial totalXP plus every amount awarded.
C2_NoLostUpdate ==
    AllIdle /\ user.exists => user.totalXP = ledger

C4_SameDayNoOp ==
    [][\A p \in Procs :
          ( /\ Takes(p, "update_streak")
            /\ user.lastActiveDate # None
            /\ Day(user.lastActiveDate[1]) = Day(now) )
          => ( /\ pc'[p] = "idle"
               /\ res'[p].updated = FALSE
               /\ res'[p].currentStreak = user.currentStreak
               /\ user' = user )]_vars

\* C4 witness: a second event of the day has returned updated = false.
C4_Witness ==
    \E p \in Procs :
        /\ res[p].op = "update_streak"
        /\ res[p].updated = FALSE
        /\ user.currentStreak >= 1
        /\ user.lastActiveDate # None
        /\ Day(user.lastActiveDate[1]) = Day(now)

C6_DayCountsOnce ==
    /\ NoDuplicates(user.streakMilestonesReached)
    /\ \A p, q \in Procs :
          ( /\ p # q
            /\ res[p].op = "update_streak"
            /\ res[q].op = "update_streak"
            /\ Day(res[p].at) = Day(res[q].at) )
          => ~(res[p].updated /\ res[q].updated)

\* C7: a streak advance commits all of its field changes together: between
\* its steps the stored record is still the one it read.
C7_AllOrNothing ==
    \A p \in Procs : loc[p].op = "update_streak" => user = loc[p].user

\* C8: when a quiz submission or a use-freeze request is reported as failed,
\* the stored record is what it was before the request.
C8_FailedMeansUnchanged ==
    \A p \in Procs :
        ( /\ res[p].op \in {"submit_quiz_result", "use_freeze_token"}
          /\ res[p].status # 200 )
        => user = res[p].before

\* C9: a login-bonus claim on a day on which the bonus was already claimed
\* fails with "Already claimed today" and changes nothing.
C9_SecondClaimFails ==
    [][\A p \in Procs :
          ( /\ Takes(p, "claim_daily_bonus")
            /\ user.lastBonusClaimDate # None
            /\ Day(user.lastBonusClaimDate[1]) = Day(now) )
          => ( /\ pc'[p] = "idle"
               /\ res'[p].success = FALSE
               /\ res'[p].error = "Already claimed today"
               /\ user' = user
               /\ ledger' = ledger )]_vars

\* C9 witness: the day-7 bonus was claimed and a second claim that day
\* failed.
C9_Witness ==
    \E p \in Procs :
        /\ res[p].op = "claim_daily_bonus"
        /\ res[p].success = FALSE
        /\ res[p].error = "Already claimed today"
        /\ user.loginStreak = 7
        /\ user.streakFreezes = 1
        /\ Day(user.lastBonusClaimDate[1]) = Day(now)

\* C10: for one calendar day at most one login-bonus claim succeeds.
C10_OneClaimPerDay ==
    \A p, q \in Procs :
        ( /\ p # q
          /\ res[p].op = "claim_daily_bonus"
          /\ res[q].op = "claim_daily_bonus"
          /\ res[p].success
          /\ res[q].success )
        => Day(res[p].claimed_at) # Day(res[q].claimed_at)

\* C11: a quiz submission by a registered user completes successfully: it
\* is answered with 200, reports the XP of the scoring formula and stores
\* the previous totalXP plus that XP.
C11_RegisteredQuizSucceeds ==
    \A p \in Procs :
        ( /\ res[p].op = "submit_quiz_result"
          /\ ~res[p].guest
          /\ res[p].before.exists )
        => ( /\ res[p].status = 200
             /\ user.totalXP = res[p].before.totalXP + res[p].xpEarned )

\* The rank is one of the five, its threshold is reached by xp, and no rank
\* with a higher threshold is reached by xp
HighestRankReached(rank, xp) ==
    /\ \E i \in 1..Len(RANK_ORDER) : RANK_ORDER[i] = rank
    /\ RANK_THRESHOLDS(rank) <= xp
    /\ \A i \in 1..Len(RANK_ORDER) :
          RANK_THRESHOLDS(RANK_ORDER[i]) <= xp
              => RANK_THRESHOLDS(RANK_ORDER[i]) <= RANK_THRESHOLDS(rank)

\* C12: for every xp >= 0 get_rank_from_xp returns the highest of the five
\* ranks whose threshold is <= xp, the rank never goes down as xp goes up,
\* and check_rank_up(500, 501) reports a rank-up from Bronze to Silver.
C12_RankIsHighestReached ==
    \A p \in Procs :
        res[p].op = "check_rank_up"
        => ( /\ HighestRankReached(res[p].old_rank, res[p].old_xp)
             /\ HighestRankReached(res[p].new_rank, res[p].new_xp)
             /\ RANK_THRESHOLDS(res[p].old_rank)
                    <= RANK_THRESHOLDS(res[p].new_rank)
             /\ res[p].ranked_up = (res[p].old_rank # res[p].new_rank)
             /\ (res[p].old_xp = 500 /\ res[p].new_xp = 501)
                    => ( /\ res[p].ranked_up
                         /\ res[p].old_rank = "Bronze"
                         /\ res[p].new_rank = "Silver" ) )

\* C12 witness: check_rank_up(500, 501) has reported the rank-up to Silver.
C12_Witness ==
    \E p \in Procs :
        /\ res[p].op = "check_rank_up"
        /\ res[p].old_xp = 500
        /\ res[p].new_xp = 501
        /\ res[p].ranked_up
        /\ res[p].new_rank = "Silver"

\* The last request of slot p was a streak advance for a stored user
StreakEvent(p) == res[p].op = "update_streak" /\ res[p].before.exists

\* The user of that advance was last active on the day before it
FromYesterday(p) ==
    /\ res[p].before.lastActiveDate # None
    /\ Day(res[p].before.lastActiveDate[1]) = Day(res[p].at) - 1

\* The user of that advance was never active, or last active more than one
\* day before it
AfterGap(p) ==
    \/ res[p].before.lastActiveDate = None
    \/ Day(res[p].before.lastActiveDate[1]) < Day(res[p].at) - 1

\* The user of that advance had a freeze marked active that expires at t or
\* later
FreezeActiveAt(p, t) ==
    /\ res[p].before.streakFreezeActive
    /\ res[p].before.streakFreezeExpiry # None
    /\ res[p].before.streakFreezeExpiry[1] >= t

\* C13: a streak advance on day d sets currentStreak to previous + 1 when
\* lastActiveDate is d - 1, and to 1 when the user was never active or was
\* last active before d - 1 and no unexpired freeze is active; in both cases
\* lastActiveDate becomes d and updated = true.
C13_AdvanceContinuesOrResets ==
    \A p \in Procs :
        StreakEvent(p) =>
            /\ FromYesterday(p)
                   => ( /\ res[p].updated
                        /\ user.currentStreak = res[p].before.currentStreak + 1
                        /\ res[p].currentStreak = user.currentStreak
                        /\ user.lastActiveDate = Some(res[p].at) )
            /\ (AfterGap(p) /\ ~FreezeActiveAt(p, res[p].at))
                   => ( /\ res[p].updated
                        /\ user.currentStreak = 1
                        /\ res[p].currentStreak = 1
                        /\ user.lastActiveDate = Some(res[p].at) )

\* C13 witness: a streak of two days or more was reset to 1 by an advance
\* after a gap with no freeze active.
C13_Witness ==
    \E p \in Procs :
        /\ StreakEvent(p)
        /\ AfterGap(p)
        /\ ~res[p].before.streakFreezeActive
        /\ res[p].before.currentStreak >= 2
        /\ res[p].updated
        /\ user.currentStreak = 1

\* C14: a streak advance that finds a gap of more than one day and a freeze
\* that is active and not yet expired sets currentStreak to previous + 1 and
\* consumes the freeze: streakFreezeActive is false afterwards.
C14_FreezeProtectsAndIsConsumed ==
    \A p \in Procs :
        (StreakEvent(p) /\ AfterGap(p) /\ FreezeActiveAt(p, now))
        => ( /\ res[p].updated
             /\ user.currentStreak = res[p].before.currentStreak + 1
             /\ ~user.streakFreezeActive )

\* C14 witness: a freeze has carried a streak over a missed day and is no
\* longer active.
C14_Witness ==
    \E p \in Procs :
        /\ StreakEvent(p)
        /\ AfterGap(p)
        /\ FreezeActiveAt(p, now)
        /\ res[p].before.currentStreak >= 1
        /\ user.currentStreak = res[p].before.currentStreak + 1
        /\ ~user.streakFreezeActive

\* C15: a freeze that is marked active but expired before the streak check
\* is cleared and does not protect: after a gap of more than one day
\* currentStreak is reset to 1 and streakFreezeActive is false.
C15_ExpiredFreezeIsCleared ==
    \A p \in Procs :
        ( /\ StreakEvent(p)
          /\ AfterGap(p)
          /\ res[p].before.streakFreezeActive
          /\ res[p].before.streakFreezeExpiry # None
          /\ res[p].before.streakFreezeExpiry[1] < res[p].at )
        => ( /\ user.currentStreak = 1
             /\ res[p].currentStreak = 1
             /\ ~user.streakFreezeActive )

\* C15 witness: an advance after a gap found an expired freeze still marked
\* active, reset a streak of two days or more and cleared the mark.
C15_Witness ==
    \E p \in Procs :
        /\ StreakEvent(p)
        /\ AfterGap(p)
        /\ res[p].before.streakFreezeActive
        /\ res[p].before.streakFreezeExpiry # None
        /\ res[p].before.streakFreezeExpiry[1] < res[p].at
        /\ res[p].before.currentStreak >= 2
        /\ user.currentStreak = 1
        /\ ~user.streakFreezeActive

\* C16: a freeze forgives one missed day only: an advance of a user who
\* missed two days or more (last active three days or more before today)
\* resets currentStreak to 1, freeze or no freeze.
C16_OneMissedDayOnly ==
    \A p \in Procs :
        ( /\ StreakEvent(p)
          /\ res[p].before.lastActiveDate # None
          /\ Day(res[p].at) - Day(res[p].before.lastActiveDate[1]) >= 3 )
        => res[p].currentStreak = 1

C18_MilestoneOnEveryAdvance ==
    \A p \in Procs :
        ( /\ StreakEvent(p)
          /\ res[p].updated
          /\ res[p].currentStreak \in STREAK_MILESTONES
          /\ ~InSeq(res[p].currentStreak,
                    res[p].before.streakMilestonesReached) )
        => ( /\ InSeq(res[p].currentStreak, user.streakMilestonesReached)
             /\ user.streakFreezes = res[p].before.streakFreezes
                    + MilestoneFreezeTokens(res[p].currentStreak)
             /\ user.totalXP = res[p].before.totalXP
                    + MilestoneBonusXP(res[p].currentStreak) )

\* C19: from creation at ease factor 2.5, the stored easeFactor is >= 1.3
\* after every review, whatever the ratings.
C19_EaseAtLeastMinimum ==
    /\ card.easeFactor >= 130
    /\ \A i \in 1..Len(card.reviewHistory) :
          card.reviewHistory[i].easeFactor >= 130

\* C19 witness: a review rated "hard" of a card at ease factor 1.38 has
\* left it at 1.3.
C19_Witness ==
    \E p \in Procs :
        /\ res[p].op = "review_flashcard"
        /\ res[p].status = 200
        /\ res[p].rating = "hard"
        /\ res[p].before.easeFactor = 138
        /\ card.easeFactor = 130

\* C20: a review rated "again" always yields interval = 0, repetitions = 0
\* and status = learning, whatever the card was before.
C20_AgainResets ==
    \A p \in Procs :
        ( /\ res[p].op = "review_flashcard"
          /\ res[p].status = 200
          /\ res[p].rating = "again" )
        => ( /\ card.interval = 0
             /\ card.repetitions = 0
             /\ card.status = "learning"
             /\ res[p].flashcard.interval = 0
             /\ res[p].flashcard.repetitions = 0
             /\ res[p].flashcard.status = "learning" )

\* C20 witness: a mastered card with a long interval was rated "again" and
\* is back at learning.
C20_Witness ==
    \E p \in Procs :
        /\ res[p].op = "review_flashcard"
        /\ res[p].status = 200
        /\ res[p].rating = "again"
        /\ res[p].before.status = "mastered"
        /\ res[p].before.interval >= 21
        /\ res[p].before.repetitions >= 2
        /\ card.interval = 0
        /\ card.status = "learning"

\* The last request of slot p was a review that passed
PassedReview(p) ==
    /\ res[p].op = "review_flashcard"
    /\ res[p].status = 200
    /\ res[p].rating \in {"hard", "good", "easy"}

\* The stored card after the passed review of slot p has the interval the
\* repetitions before it call for (1, 6, or the integer nearest to the old
\* interval times the old ease factor) and one repetition more
PassedIntervalRule(p) ==
    /\ card.repetitions = res[p].before.repetitions + 1
    /\ IF res[p].before.repetitions = 0 THEN card.interval = 1
       ELSE IF res[p].before.repetitions = 1 THEN card.interval = 6
       ELSE 100 * card.interval
                - res[p].before.interval * res[p].before.easeFactor
                \in (0 - 50)..50

\* The passed review of slot p was rated "good" and read a card with this
\* interval and these repetitions at ease factor 2.5
GoodReviewOf(p, interval, repetitions) ==
    /\ res[p].rating = "good"
    /\ res[p].before.interval = interval
    /\ res[p].before.repetitions = repetitions
    /\ res[p].before.easeFactor = 250

\* The stored card is at interval 15 with these repetitions, ease factor 2.5
\* and status reviewing
AtFifteen(repetitions) ==
    /\ card.interval = 15
    /\ card.repetitions = repetitions
    /\ card.easeFactor = 250
    /\ card.status = "reviewing"

C22_StatusFollowsInterval ==
    card.exists
    => ( /\ card.status \in {"learning", "reviewing", "mastered"}
         /\ card.status = "mastered" <=> card.interval >= 21
         /\ card.status = "reviewing"
                <=> (card.interval >= 1 /\ card.interval < 21)
         /\ card.status = "learning" <=> card.interval = 0 )

\* C22 witness: four passes from creation have taken the card to an
\* interval of 21 days or more, and it is mastered.
C22_Witness ==
    /\ Len(card.reviewHistory) = 4
    /\ card.repetitions = 4
    /\ card.interval >= 21
    /\ card.status = "mastered"

\* The last request of slot p was a login-bonus claim that succeeded
Claimed(p) == res[p].op = "claim_daily_bonus" /\ res[p].success

\* DAILY_LOGIN_BONUSES as the claims read it: xp, freeze tokens and badge of
\* login day n, and the flat 5 XP of a day not in the table
TablePayload(n) ==
    IF n = 1 THEN <<10, 0, "">>
    ELSE IF n = 3 THEN <<25, 0, "">>
    ELSE IF n = 7 THEN <<50, 1, "">>
    ELSE IF n = 14 THEN <<100, 1, "">>
    ELSE IF n = 30 THEN <<200, 2, "Monthly Login Master">>
    ELSE IF n = 50 THEN <<300, 2, "">>
    ELSE IF n = 100 THEN <<500, 5, "Century Learner">>
    ELSE <<5, 0, "">>

\* C23: a successful claim that brings loginStreak to n grants the payload
\* of the table for n in {1, 3, 7, 14, 30, 50, 100} and 5 XP with no token
\* and no badge for any other n; the XP is added to totalXP and the tokens
\* to the freeze tokens.
C23_ClaimGrantsTablePayload ==
    \A p \in Procs :
        Claimed(p) =>
            LET n == res[p].loginStreak
                xp == TablePayload(n)[1]
                tokens == TablePayload(n)[2]
                badge == TablePayload(n)[3]
            IN /\ user.loginStreak = n
               /\ res[p].bonus.xp = xp
               /\ res[p].bonus.freeze_tokens = tokens
               /\ res[p].bonus.badge = badge
               /\ user.totalXP = res[p].before.totalXP + xp
               /\ res[p].newTotalXP = user.totalXP
               /\ user.streakFreezes = res[p].before.streakFreezes + tokens
               /\ res[p].newFreezeTokens = user.streakFreezes
               /\ IF badge = ""
                  THEN user.loginBadges = res[p].before.loginBadges
                  ELSE \E b \in user.loginBadges :
                          b.name = badge /\ b.days = n

\* C23 witness: the claim of day 7 after six days of logins has granted 50
\* XP and one freeze token.
C23_Witness ==
    \E p \in Procs :
        /\ Claimed(p)
        /\ res[p].before.loginStreak = 6
        /\ res[p].loginStreak = 7
        /\ user.totalXP = res[p].before.totalXP + 50
        /\ user.streakFreezes = res[p].before.streakFreezes + 1

CheckWritesNothing ==
    \A p \in Procs :
        Takes(p, "check_daily_bonus")
        => (user' = user /\ leaderboard' = leaderboard /\ ledger' = ledger)

\* A claim and a check that read the same record on the same day agree: the
\* claim succeeded exactly if the check said claimable, and applied the
\* loginStreak and the bonus of the check
ClaimAsChecked ==
    \A p, q \in Procs :
        ( /\ res[p].op = "claim_daily_bonus"
          /\ res[q].op = "check_daily_bonus"
          /\ res[q].seen = res[p].before
          /\ Day(res[q].at) = Day(res[p].checked_at) )
        => ( /\ res[p].success = res[q].result.claimable
             /\ res[p].success
                    => ( /\ res[p].loginStreak = res[q].result.loginStreak
                         /\ res[p].bonus = res[q].result.bonus
                         /\ user.loginStreak = res[q].result.loginStreak
                         /\ user.totalXP = res[p].before.totalXP
                                + res[q].result.bonus.xp
                         /\ user.streakFreezes = res[p].before.streakFreezes
                                + res[q].result.bonus.freeze_tokens ) )

\* C25: check_daily_login_bonus writes nothing to the user record, and a
\* claim succeeds exactly when the check reports claimable = true for that
\* state, applying exactly the loginStreak and bonus the check reports.
C25_ClaimFollowsCheck == [][CheckWritesNothing /\ ClaimAsChecked']_vars

\* C25 witness: a check reported the day-30 bonus claimable and the claim
\* of the same record has applied it.
C25_Witness ==
    \E p, q \in Procs :
        /\ Claimed(p)
        /\ res[q].op = "check_daily_bonus"
        /\ res[q].seen = res[p].before
        /\ res[q].result.claimable
        /\ res[q].result.loginStreak = 30
        /\ user.loginStreak = 30

\* The last request of slot p was an achievement evaluation for a stored
\* user
Evaluated(p) == res[p].op = "check_achievements" /\ res[p].before.exists

\* The achievements of the four axes of thresholds, lowest first
StreakAxis == <<<<"streak_3", 3>>, <<"streak_7", 7>>, <<"streak_30", 30>>>>
QuestAxis == <<<<"quest_10", 10>>, <<"quest_50", 50>>, <<"quest_100", 100>>>>
CorrectAxis == <<<<"correct_100", 100>>, <<"correct_500", 500>>>>
XpAxis == <<<<"xp_1000", 1000>>, <<"xp_5000", 5000>>, <<"xp_10000", 10000>>>>

\* Of the achievements of an axis, newly holds exactly the one with the
\* highest threshold that stat reaches and that is not in earned
HighestNewOnAxis(axis, stat, earned, newly) ==
    LET open(i) == stat >= axis[i][2] /\ ~InSeq(axis[i][1], earned)
    IN \A i \in 1..Len(axis) :
          InSeq(axis[i][1], newly)
              <=> (open(i) /\ \A j \in (i + 1)..Len(axis) : ~open(j))

\* C26: one achievement evaluation reports at most one achievement per axis
\* (streak, quests completed, correct answers, total XP): the one with the
\* highest threshold the snapshot meets that was not earned before; and no
\* reported id was earned before.
C26_HighestPerAxis ==
    \A p \in Procs :
        Evaluated(p) =>
            LET earned == res[p].before.achievements
                newly == res[p].newly_unlocked
                stats == res[p].user_stats
            IN /\ NoDuplicates(newly)
               /\ \A k \in 1..Len(newly) : ~InSeq(newly[k], earned)
               /\ HighestNewOnAxis(StreakAxis, stats.currentStreak, earned, newly)
               /\ HighestNewOnAxis(QuestAxis, stats.questsCompleted, earned, newly)
               /\ HighestNewOnAxis(CorrectAxis, stats.correctAnswers, earned, newly)
               /\ HighestNewOnAxis(XpAxis, stats.totalXP, earned, newly)

\* C26 witness: a streak of 35 with nothing earned on the streak axis has
\* reported streak_30 and neither streak_3 nor streak_7.
C26_Witness ==
    \E p \in Procs :
        /\ Evaluated(p)
        /\ res[p].user_stats.currentStreak = 35
        /\ \A i \in 1..Len(StreakAxis) :
              ~InSeq(StreakAxis[i][1], res[p].before.achievements)
        /\ InSeq("streak_30", res[p].newly_unlocked)
        /\ ~InSeq("streak_7", res[p].newly_unlocked)
        /\ ~InSeq("streak_3", res[p].newly_unlocked)

\* C28: the stored achievements are append-only and free of duplicates: no
\* step removes an earned id, no id is stored twice, and every id an
\* evaluation reported is stored once the evaluation has completed, also
\* when evaluations interleave.
C28_AchievementsAppendOnly ==
    [][ /\ \A i \in 1..Len(user.achievements) :
              InSeq(user.achievements[i], user'.achievements)
        /\ NoDuplicates(user'.achievements)
        /\ \A p \in Procs :
              res'[p].op = "check_achievements"
              => \A k \in 1..Len(res'[p].newly_unlocked) :
                    InSeq(res'[p].newly_unlocked[k], user'.achievements) ]_vars

\* C28 witness: two evaluations that ran together have both reported
\* streak_7, and it is stored.
C28_Witness ==
    /\ \A p \in Procs :
          /\ res[p].op = "check_achievements"
          /\ InSeq("streak_7", res[p].newly_unlocked)
    /\ InSeq("streak_7", user.achievements)

\* The last request of slot p has completed and changed the stored totalXP:
\* an XP update, a streak advance with a milestone bonus, or a claim of the
\* login bonus
ChangedTotalXP(p) ==
    /\ pc[p] = "idle"
    /\ user.exists
    /\ \/ res[p].op = "update_user_xp" /\ res[p].ok
       \/ /\ res[p].op \in {"update_streak", "claim_daily_bonus"}
          /\ user.totalXP # res[p].before.totalXP

SomeOf(axis, earned) == \E i \in 1..Len(axis) : InSeq(axis[i][1], earned)

\* C27: a quiz submission of a registered user completes, and the
\* achievement evaluation in it sees the statistics the submission has just
\* stored: with the stored currentStreak at 3 or more a streak achievement
\* is earned, with totalXP at 1000 or more an XP achievement is earned.
C27_QuizUnlocksFromFreshStats ==
    \A p \in Procs :
        ( /\ res[p].op = "submit_quiz_result"
          /\ ~res[p].guest
          /\ res[p].before.exists )
        => ( /\ res[p].status = 200
             /\ user.currentStreak >= 3 => SomeOf(StreakAxis, user.achievements)
             /\ user.totalXP >= 1000 => SomeOf(XpAxis, user.achievements) )

\* C29: an XP update of a stored user whose leaderboard write fails still
\* succeeds: it returns its normal result, and the totalXP and rank of the
\* result are the stored ones.
C29_XpUpdateSurvivesOutage ==
    \A p \in Procs :
        res[p].op = "update_user_xp" /\ user.exists
        => ( /\ res[p].ok
             /\ user.totalXP = res[p].newXP
             /\ user.rank = res[p].newRank )

\* C30: after every completed operation that changed the totalXP of a user
\* (XP update, streak-milestone bonus, login bonus), the leaderboard store
\* taking every write, the leaderboard entry of the user holds the totalXP
\* and the rank of the user record.
C30_LeaderboardMatchesUser ==
    \A p \in Procs :
        ChangedTotalXP(p)
        => ( /\ leaderboard.present
             /\ leaderboard.totalXP = user.totalXP
             /\ leaderboard.rankTier = user.rank )

\* The result r tells its caller of a failure: it carries an error, or is
\* the exception of update_user_xp, or an HTTP status of 400 and above
SurfacesFailure(r) ==
    \/ "error" \in DOMAIN r
    \/ "ok" \in DOMAIN r /\ ~r.ok
    \/ "status" \in DOMAIN r /\ r.status >= 400

EngineOperations ==
    {"update_user_xp", "update_streak", "use_freeze_token",
     "check_daily_bonus", "claim_daily_bonus", "check_achievements"}

\* C31: every engine operation invoked for a user id with no stored record
\* surfaces a failure to its caller, not a normal result, and writes nothing
\* to any store.
C31_MissingUserFails ==
    \A p \in Procs :
        ( /\ res[p].op \in EngineOperations
          /\ ~user.exists )
        => ( /\ SurfacesFailure(res[p])
             /\ user = MissingUser
             /\ leaderboard = NoEntry )

\* Slot p answers the quiz submission of a guest in this step
GuestSubmission(p) ==
    /\ pc[p] = "idle"
    /\ res'[p] # res[p]
    /\ res'[p].op = "submit_quiz_result"
    /\ res'[p].guest

\* C32: a quiz submission of a guest leaves the user record, the
\* achievements in it, the leaderboard entry and the flashcard as they are,
\* and its response is the XP of the submission with streak 0: 10 for each
\* correct answer and 50 for a perfect score, as total, from rank Bronze.
C32_GuestTouchesNothing ==
    [][ \A p \in Procs :
            GuestSubmission(p)
            => ( /\ user' = user
                 /\ leaderboard' = leaderboard
                 /\ card' = card
                 /\ res'[p].status = 200
                 /\ res'[p].xpEarned
                        = res'[p].correctAnswers * 10
                          + (IF res'[p].perfectScore THEN 50 ELSE 0)
                 /\ res'[p].newTotalXP = res'[p].xpEarned
                 /\ res'[p].newRank = "Bronze"
                 /\ ~res'[p].rankedUp ) ]_vars

\* C32 witness: a guest submission was answered while the stored user has a
\* streak of 6 and 450 XP, with the 50 XP of five correct answers.
C32_Witness ==
    \E p \in Procs :
        /\ res[p].op = "submit_quiz_result"
        /\ res[p].guest
        /\ user.exists
        /\ user.currentStreak = 6
        /\ user.totalXP = 450
        /\ res[p].xpEarned = 50

\* C33: the stored totalXP of a user is at least 0 and no step of any
\* sequence or interleaving of operations lowers it.
C33_TotalXPNeverDecreases ==
    [][ /\ user'.totalXP >= 0
        /\ user'.totalXP >= user.totalXP ]_vars

\* The card c after the review rated rating at the time t
ReviewOf(c, rating, t) == Reviewed(c, Sm2(c, rating), t)

\* C34: reviews of one card that overlap are serialized: once two reviews,
\* one in each slot, have completed, the stored card is the card the first
\* of them read after the two reviews applied one after the other, in one
\* of the two orders.
C34_ReviewsSerialized ==
    ( /\ AllIdle
      /\ \A p \in Procs :
            /\ calls[p] = 1
            /\ res[p].op = "review_flashcard"
            /\ res[p].status = 200 )
    => \E p, q \in Procs :
          /\ p # q
          /\ card = ReviewOf(ReviewOf(res[p].before, res[p].rating, now),
                             res[q].rating, now)

\* The review in slot p is stored and answered in this step
ReviewStored(p) == pc[p] = "review_update" /\ pc'[p] = "idle"

\* The quality of a rating, as the claims read it
RatingQuality(rating) ==
    CASE rating = "again" -> 0
      [] rating = "hard" -> 3
      [] rating = "good" -> 4
      [] rating = "easy" -> 5

\* C35: each review of a card appends exactly one entry to reviewHistory
\* and leaves the earlier entries as they are; the entry holds the quality
\* of the rating and the interval and easeFactor stored on the card by that
\* review.  No other step changes reviewHistory.
C35_HistoryAppendOnly ==
    [][ LET old == card.reviewHistory
            new == card'.reviewHistory
        IN IF \E p \in Procs : ReviewStored(p)
           THEN \E p \in Procs :
                   /\ ReviewStored(p)
                   /\ Len(new) = Len(old) + 1
                   /\ SubSeq(new, 1, Len(old)) = old
                   /\ new[Len(new)].quality = RatingQuality(res'[p].rating)
                   /\ new[Len(new)].interval = card'.interval
                   /\ new[Len(new)].easeFactor = card'.easeFactor
           ELSE new = old ]_vars

\* C35 witness: a card holds the entries of a failed review and of a passed
\* one after it, the second with the interval 1 now stored.
C35_Witness ==
    /\ Len(card.reviewHistory) = 2
    /\ card.reviewHistory[1].quality = 0
    /\ card.reviewHistory[1].interval = 0
    /\ card.reviewHistory[2].quality = 5
    /\ card.reviewHistory[2].interval = 1
    /\ card.interval = 1

\* C36: a review rated "easy" leaves the card with an interval strictly
\* greater than the one it had, so the interval grows through a run of
\* "easy" reviews; from the third consecutive pass on (two passes or more
\* counted in repetitions) the new interval is the old interval times the
\* old easeFactor, rounded.
C36_EasyGrowsInterval ==
    [][ \A p \in Procs :
            ReviewStored(p) /\ res'[p].rating = "easy"
            => ( /\ card'.interval > card.interval
                 /\ card.repetitions >= 2
                    => card'.interval = round(card.interval * card.easeFactor) ) ]_vars

\* C36 witness: two "easy" reviews in a row, the second as the third pass
\* in a row, have taken the interval from 1 to 6 to 16.
C36_Witness ==
    LET h == card.reviewHistory
    IN /\ Len(h) = 3
       /\ h[1].interval = 1
       /\ h[2].quality = 5 /\ h[2].interval = 6
       /\ h[3].quality = 5 /\ h[3].interval = 16
       /\ card.repetitions = 3

\* C37: a quiz submission of a registered user is paid from the
\* currentStreak stored before it, ahead of the streak advance of the day:
\* the streak bonus is 5 for each day of that streak and the multiplier is
\* the one of that streak (from a streak of 6: bonus 30, multiplier 1.0).
C37_PaidFromStreakBefore ==
    \A p \in Procs :
        ( /\ res[p].op = "submit_quiz_result"
          /\ ~res[p].guest
          /\ res[p].before.exists )
        => ( /\ res[p].status = 200
             /\ res[p].breakdown.streak_bonus = 5 * res[p].before.currentStreak
             /\ res[p].breakdown.streak_multiplier
                    = (IF res[p].before.currentStreak >= 100 THEN 30
                       ELSE IF res[p].before.currentStreak >= 30 THEN 20
                       ELSE IF res[p].before.currentStreak >= 7 THEN 15
                       ELSE 10) )

\* Slot p answers a progress update of the weekly quests in this step
ProgressUpdated(p) == pc[p] = "weekly_update" /\ pc'[p] = "idle"

\* C38: within one week the XP of a weekly quest is in the xpAwarded of no
\* progress update but the one that completes the quest, and the 200 XP of
\* the all-quests bonus in no update but the one that completes the last
\* quest: the xpAwarded of an update is the xp of the quests it completes,
\* and 200 more when it sets bonusAwarded.
C38_QuestXpAwardedOnce ==
    [][ \A p \in Procs :
            ProgressUpdated(p)
            => LET before == res'[p].before.quests
                   after == res'[p].quests
                   newly(i) == IF after[i].completed /\ ~before[i].completed
                               THEN after[i].xp ELSE 0
               IN res'[p].xpAwarded
                     = newly(1) + newly(2) + newly(3)
                       + (IF weekly'.bonusAwarded /\ ~res'[p].before.bonusAwarded
                          THEN 200 ELSE 0) ]_vars

\* C39: on a card reached from its creation by reviews one after another,
\* repetitions is 0 exactly when interval is 0, and with repetitions at 2
\* or more the interval is at least 6; so the review that multiplies the
\* interval by the ease factor never reads an interval of 0.
C39_RepetitionsMatchInterval ==
    card.exists
    => ( /\ (card.repetitions = 0) <=> (card.interval = 0)
         /\ card.repetitions >= 2 => card.interval >= 6
         /\ \A p \in Procs :
               ( /\ pc[p] = "review_update"
                 /\ loc[p].rating # "again"
                 /\ loc[p].card.repetitions >= 2 )
               => loc[p].card.interval # 0 )

\* C39 witness: a card that failed a review and passed two after it is at
\* repetitions 2 and interval 6, and a third passing review of it is on its
\* way.
C39_Witness ==
    \E p \in Procs :
        /\ pc[p] = "review_update"
        /\ loc[p].rating = "good"
        /\ Len(card.reviewHistory) = 3
        /\ card.reviewHistory[1].quality = 0
        /\ card.repetitions = 2
        /\ card.interval = 6

\* Slot p takes an achievement evaluation in this step, right after an
\* evaluation of the same user with the same snapshot has completed
EvaluatedAgain(p) ==
    /\ pc[p] = "idle"
    /\ res[p].op = "check_achievements"
    /\ res[p].before.exists
    /\ calls'[p] # calls[p]
    /\ res[p].user_stats = IF pc'[p] = "idle" THEN res'[p].user_stats
                           ELSE loc'[p].user_stats

\* C40: an achievement evaluation run a second time in a row for the same
\* user with the same snapshot and stored rank reports nothing as newly
\* unlocked and leaves the stored achievements as they are.
C40_SecondEvaluationUnlocksNothing ==
    [][ \A p \in Procs :
            EvaluatedAgain(p)
            => ( /\ pc'[p] = "idle"
                 /\ res'[p].newly_unlocked = <<>>
                 /\ user'.achievements = user.achievements ) ]_vars

=============================================================================
